---- MODULE Spec2Model ----
(***************************************************************************)
(* Model of slide_creator.py: a one-shot script that locates a reference   *)
(* PDF, extracts its embedded images, asks a generation service for a     *)
(* JSON array of slides, renders them through a template and writes        *)
(* output.html.                                                            *)
(*                                                                         *)
(* Modelling domain.  Paths are sequences of components on a POSIX         *)
(* filesystem without symbolic links.  The PDF candidate paths may be      *)
(* absent, directories or regular files; the cache directory `resources`   *)
(* and `resources/images` are absent or directories; prompt.txt,           *)
(* slide_template.html and output.html are absent or regular files.        *)
(* A file's content is the PDF document it holds: a sequence of pages,     *)
(* each page the sequence of its embedded images, each image its pixel     *)
(* format.                                                                 *)
(***************************************************************************)
EXTENDS Integers, Sequences, FiniteSets, TLC

VARIABLES
    pc,                 \* position of the script (module-level statements)
    exitStatus,         \* process exit status; -1 while running
    stdout,             \* printed messages, in order
    stages,             \* module-level stages completed in this run, in order
    fs,                 \* filesystem: resolved path -> node
    env,                \* os.environ["SOURCE_PDF_PATH"]
    fitz,               \* TRUE iff `import fitz` succeeded (lines 13-16)
    promptFile,         \* prompt.txt
    templateFile,       \* slide_template.html
    outputFile,         \* output.html
    outputWrites,       \* times output.html was opened for writing in this run
    imageFiles,         \* PNG files under IMAGE_DIR: base name and saved pixmap
    prompt,
    pdf_path,
    image_catalog,      \* dict, as the sequence of its items in insertion order
    image_context_lines,
    full_prompt,
    apiCalls,           \* generate_content calls made in this run
    response,
    raw_output,
    slides,
    rendered_html,
    raised,             \* the uncaught exception that ended the run, else "none"
    pdfOpened,          \* TRUE iff fitz.open was called in this run
    fsAtStart,          \* history: the filesystem when the run started
    imageFilesAtStart,  \* history: the PNG files when the run started
    outputAtStart       \* history: output.html when the run started

vars == << pc, exitStatus, stdout, stages, fs, env, fitz, promptFile,
           templateFile, outputFile, outputWrites, imageFiles, prompt, pdf_path,
           image_catalog, image_context_lines, full_prompt, apiCalls, response,
           raw_output, slides, rendered_html, raised, pdfOpened, fsAtStart,
           imageFilesAtStart, outputAtStart >>

(***************************************************************************)
(* Bounds of the model.                                                    *)
(***************************************************************************)
MaxPages == 3
MaxImages == 2
MaxSlides == 2

(***************************************************************************)
(* Paths.                                                                  *)
(***************************************************************************)
Cwd == << "/", "project" >>

RESOURCE_DIR == << "resources" >>
PDF_PATH == RESOURCE_DIR \o << "water_heater_guide.pdf" >>
IMAGE_DIR == RESOURCE_DIR \o << "images" >>

\* The hard-coded Windows path is a single relative component on POSIX.
WindowsPdf == << "C:\\Users\\TA96939\\Documents\\CanadianWaterHeaterResearchProject\\WaterHeaterGuide_e.pdf" >>
RepoPdf == << "WaterHeaterGuide_e.pdf" >>
RepoResourcePdf == RESOURCE_DIR \o << "WaterHeaterGuide_e.pdf" >>

\* A PDF outside the project that SOURCE_PDF_PATH may name.
ExternalPdf == << "/", "data", "manual.pdf" >>

IsAbsolute(p) == Len(p) > 0 /\ p[1] = "/"

RECURSIVE Normalize(_, _)
\* Path.resolve() without symlinks: "." is dropped, ".." pops a component.
Normalize(p, acc) ==
    IF p = << >> THEN acc
    ELSE IF Head(p) = "." THEN Normalize(Tail(p), acc)
    ELSE IF Head(p) = ".."
         THEN Normalize(Tail(p), IF Len(acc) > 1 THEN SubSeq(acc, 1, Len(acc) - 1) ELSE acc)
    ELSE Normalize(Tail(p), Append(acc, Head(p)))

Resolve(p) == Normalize(IF IsAbsolute(p) THEN p ELSE Cwd \o p, << >>)

(***************************************************************************)
(* Filesystem nodes.                                                       *)
(***************************************************************************)
NoData == << >>
Absent == [type |-> "absent", data |-> NoData]
Dir == [type |-> "dir", data |-> NoData]
File(d) == [type |-> "file", data |-> d]

Node(f, p) == IF Resolve(p) \in DOMAIN f THEN f[Resolve(p)] ELSE Absent
IsFile(f, p) == Node(f, p).type = "file"
Exists(f, p) == Node(f, p).type # "absent"

\* Path.mkdir(exist_ok=True): FileExistsError unless the path is absent or a directory.
Mkdir(f, p) ==
    IF Node(f, p).type = "absent"
    THEN [raised |-> "none", fs |-> [f EXCEPT ![Resolve(p)] = Dir]]
    ELSE IF Node(f, p).type = "dir"
    THEN [raised |-> "none", fs |-> f]
    ELSE [raised |-> "FileExistsError", fs |-> f]

CopyFileTruncates(f, src, dst) ==
    [raised |-> "none", fs |-> [f EXCEPT ![Resolve(dst)] = File(NoData)]]

\* shutil.copyfile(src, dst)
CopyFile(f, src, dst) ==
    IF Resolve(src) = Resolve(dst)
    THEN [raised |-> "SameFileError", fs |-> f]
    ELSE IF Node(f, dst).type = "dir"
    THEN [raised |-> "IsADirectoryError", fs |-> f]
    ELSE [raised |-> "none", fs |-> [f EXCEPT ![Resolve(dst)] = File(Node(f, src).data)]]

(***************************************************************************)
(* Messages printed to the console: a tag and an argument.                 *)
(***************************************************************************)
Msg(tag, arg) == [msg |-> tag, arg |-> arg]

(***************************************************************************)
(* iter_pdf_candidates (lines 29-62).                                      *)
(***************************************************************************)
\* os.getenv: the variable is unset (None) or holds a string, possibly empty.
Unset == [set |-> FALSE, value |-> << >>]
EnvPath(p) == [set |-> TRUE, value |-> p]
PathLike(p) == [set |-> TRUE, value |-> p]

\* `if not path_like: return` (line 36): None and "" are skipped.
Falsy(path_like) == ~path_like.set \/ path_like.value = << >>

\* add(path_like) (lines 35-46) on the queue built so far.
AddCandidate(queue, path_like) ==
    IF Falsy(path_like) THEN queue
    ELSE IF \E i \in 1..Len(queue) : Resolve(queue[i]) = Resolve(path_like.value)
    THEN queue
    ELSE Append(queue, path_like.value)

CandidateSlotsOverrideFirst(e) ==
    << e, PathLike(PDF_PATH), PathLike(WindowsPdf), PathLike(RepoPdf),
       PathLike(RepoResourcePdf) >>

\* The priority order of lines 48-59.
CandidateSlots(e) ==
    << PathLike(PDF_PATH), e, PathLike(WindowsPdf), PathLike(RepoPdf),
       PathLike(RepoResourcePdf) >>

RECURSIVE AddAll(_, _)
AddAll(queue, slots) ==
    IF slots = << >> THEN queue
    ELSE AddAll(AddCandidate(queue, Head(slots)), Tail(slots))

iter_pdf_candidates(e) == AddAll(<< >>, CandidateSlots(e))

(***************************************************************************)
(* ensure_pdf_available (lines 65-88).  The result names the exception     *)
(* that left the call ("none" when it returned), the returned path, the    *)
(* filesystem afterwards and what was printed.                             *)
(***************************************************************************)
NoCandidateTouchesCache(f, out) ==
    [raised |-> "FileNotFoundError", value |-> << >>,
     fs |-> [f EXCEPT ![Resolve(PDF_PATH)] = File(NoData)], out |-> out,
     copied |-> FALSE]

\* Lines 85-88: no candidate was a regular file.
NoCandidate(f, out) ==
    [raised |-> "FileNotFoundError", value |-> << >>, fs |-> f, out |-> out,
     copied |-> FALSE]

RECURSIVE CandidateLoop(_, _, _, _)
CandidateLoop(f, cands, i, out) ==
    IF i > Len(cands)
    THEN NoCandidate(f, out)
    ELSE LET candidate == cands[i] IN
         IF IsFile(f, candidate)
         THEN IF Resolve(candidate) # Resolve(PDF_PATH)
              THEN LET cp == CopyFile(f, candidate, PDF_PATH) IN
                   IF cp.raised # "none"
                   THEN [raised |-> cp.raised, value |-> << >>, fs |-> cp.fs,
                         out |-> out, copied |-> FALSE]
                   ELSE [raised |-> "none", value |-> PDF_PATH, fs |-> cp.fs,
                         out |-> Append(out, Msg("pdf_copied", candidate)),
                         copied |-> TRUE]
              ELSE [raised |-> "none", value |-> PDF_PATH, fs |-> f,
                    out |-> Append(out, Msg("pdf_cached", PDF_PATH)),
                    copied |-> FALSE]
         ELSE IF Exists(f, candidate)
         THEN CandidateLoop(f, cands, i + 1, Append(out, Msg("not_a_file", candidate)))
         ELSE CandidateLoop(f, cands, i + 1, out)

ensure_pdf_available(f, e) ==
    LET md == Mkdir(f, RESOURCE_DIR) IN
    IF md.raised # "none"
    THEN [raised |-> md.raised, value |-> << >>, fs |-> md.fs, out |-> << >>,
          copied |-> FALSE]
    ELSE CandidateLoop(md.fs, iter_pdf_candidates(e), 1, << >>)

(***************************************************************************)
(* Text: a sequence of one-character strings.                              *)
(***************************************************************************)
IsSpace(c) == c \in {" ", "\n"}
NotSpace(c) == ~IsSpace(c)

RECURSIVE LStrip(_)
LStrip(t) == IF t # << >> /\ IsSpace(Head(t)) THEN LStrip(Tail(t)) ELSE t

RECURSIVE RStrip(_)
RStrip(t) ==
    IF t # << >> /\ IsSpace(t[Len(t)]) THEN RStrip(SubSeq(t, 1, Len(t) - 1)) ELSE t

\* str.strip()
Strip(t) == RStrip(LStrip(t))

\* Code points of the characters catalog ids are made of (str comparison order).
Ord(c) ==
    CASE c = "-" -> 45
      [] c = "0" -> 48 [] c = "1" -> 49 [] c = "2" -> 50 [] c = "3" -> 51
      [] c = "4" -> 52 [] c = "5" -> 53 [] c = "6" -> 54 [] c = "7" -> 55
      [] c = "8" -> 56 [] c = "9" -> 57
      [] c = "a" -> 97 [] c = "e" -> 101 [] c = "g" -> 103 [] c = "i" -> 105
      [] c = "m" -> 109 [] c = "p" -> 112

RECURSIVE StrLessFrom(_, _, _)
StrLessFrom(a, b, i) ==
    IF i > Len(a) THEN i <= Len(b)
    ELSE IF i > Len(b) THEN FALSE
    ELSE IF a[i] = b[i] THEN StrLessFrom(a, b, i + 1)
    ELSE Ord(a[i]) < Ord(b[i])

\* Python's a < b on str: by code point at the first difference, a proper prefix first.
StrLess(a, b) == StrLessFrom(a, b, 1)

\* sorted() on the keys of a dict: the keys are distinct, so the k-th of
\* the result is the key with k-1 keys below it.
Sorted(keys) ==
    LET ranked == {<< x, Cardinality({y \in keys : StrLess(y, x)}) >> : x \in keys}
    IN  [k \in 1..Cardinality(keys) |-> (CHOOSE r \in ranked : r[2] = k - 1)[1]]

(***************************************************************************)
(* Catalog ids: f"page-{page_index:03d}-image-{img_index:02d}" (line 116). *)
(***************************************************************************)
PageDigits == 3
ImageDigits == 2

DigitChar(d) == << "0", "1", "2", "3", "4", "5", "6", "7", "8", "9" >>[d + 1]

RECURSIVE Decimal(_)
Decimal(n) ==
    IF n < 10 THEN << DigitChar(n) >>
    ELSE Append(Decimal(n \div 10), DigitChar(n % 10))

ZeroPadNone(n, width) == Decimal(n)

\* Format spec 0<width>d: zero-filled to at least `width` digits, never truncated.
ZeroPad(n, width) ==
    LET d == Decimal(n) IN
    IF Len(d) >= width THEN d ELSE [k \in 1..(width - Len(d)) |-> "0"] \o d

BaseName(page_index, img_index) ==
    << "p", "a", "g", "e", "-" >> \o ZeroPad(page_index, PageDigits)
        \o << "-", "i", "m", "a", "g", "e", "-" >> \o ZeroPad(img_index, ImageDigits)

(***************************************************************************)
(* Pixmaps (PyMuPDF): a colourspace and an alpha flag; pix.n counts the    *)
(* colour components plus alpha.                                           *)
(***************************************************************************)
Colorspaces == {"gray", "rgb", "cmyk"}
Components(cs) == CASE cs = "gray" -> 1 [] cs = "rgb" -> 3 [] cs = "cmyk" -> 4
Pixmap(cs, alpha) == [cs |-> cs, alpha |-> alpha]
PixN(pix) == Components(pix.cs) + pix.alpha
PixFormats == {Pixmap(cs, a) : cs \in Colorspaces, a \in {0, 1}}
RGB == Pixmap("rgb", 0)

\* fitz.Pixmap(fitz.csRGB, pix): converts the colourspace and keeps the alpha channel.
ToRGB(pix) == Pixmap("rgb", pix.alpha)

CmykChannels == 5

\* Lines 119-124: what is handed to pix.save.
Converted(pix) ==
    IF PixN(pix) >= CmykChannels THEN ToRGB(pix)
    ELSE IF pix.alpha = 1 THEN ToRGB(pix)
    ELSE pix

\* pix.save(... ".png") (line 127): PNG holds gray or RGB data, with or without
\* alpha; PyMuPDF raises ValueError for a colourspace of more than 3 components.
SaveRaises(pix) == Components(pix.cs) > 3

(***************************************************************************)
(* extract_images_from_pdf (lines 91-145).  A document is the sequence of  *)
(* its pages, a page the sequence of the pixmaps of its images.            *)
(***************************************************************************)
\* (page_index, img_index) of every image, both 1-based.
Positions(doc) == UNION {{<< p, i >> : i \in 1..Len(doc[p])} : p \in 1..Len(doc)}

\* The order in which the nested loops (lines 105, 114) visit the images.
Before(a, b) == a[1] < b[1] \/ (a[1] = b[1] /\ a[2] < b[2])

\* The positions of S in visiting order.
InOrder(S) ==
    LET ranked == {<< x, Cardinality({y \in S : Before(y, x)}) >> : x \in S}
    IN  [k \in 1..Cardinality(S) |-> (CHOOSE r \in ranked : r[2] = k - 1)[1]]

\* The images whose pix.save raises; the first of them ends the loops.
Failing(doc) == {x \in Positions(doc) : SaveRaises(Converted(doc[x[1]][x[2]]))}
FirstFailing(doc) == CHOOSE x \in Failing(doc) : \A y \in Failing(doc) : ~Before(y, x)

\* The images saved before the loops end.
Saved(doc) ==
    IF Failing(doc) = {} THEN Positions(doc)
    ELSE {x \in Positions(doc) : Before(x, FirstFailing(doc))}

\* A PNG file under IMAGE_DIR (lines 126-127): its base name and the pixmap saved.
PngFile(name, pix) == [name |-> name, pix |-> pix]

\* catalog[base_name] = {...} (lines 130-136); width, height and context are
\* copied from the PDF listing and page text and are not modelled.
CatalogItem(x) ==
    [key |-> BaseName(x[1], x[2]),
     src |-> [dir |-> IMAGE_DIR, name |-> BaseName(x[1], x[2])],
     page |-> x[1]]

Keys(catalog) == {catalog[k].key : k \in 1..Len(catalog)}

FitzMissingMakesDir(f, files) ==
    [raised |-> "none", value |-> << >>, fs |-> Mkdir(f, IMAGE_DIR).fs,
     files |-> files, opened |-> FALSE,
     out |-> << Msg("pymupdf_missing", << >>) >>]

\* Lines 94-99: fitz is None.
FitzMissing(f, files) ==
    [raised |-> "none", value |-> << >>, fs |-> f, files |-> files,
     opened |-> FALSE, out |-> << Msg("pymupdf_missing", << >>) >>]

extract_images_from_pdf(f, files, path, fitzOk) ==
    IF ~fitzOk
    THEN FitzMissing(f, files)
    ELSE LET md == Mkdir(f, IMAGE_DIR)
             doc == Node(f, path).data
             saved == Saved(doc)
             order == InOrder(saved)
             new == {PngFile(BaseName(x[1], x[2]), Converted(doc[x[1]][x[2]])) : x \in saved}
             written == {old \in files : \A n \in new : n.name # old.name} \cup new
             catalog == [k \in 1..Len(order) |-> CatalogItem(order[k])]
         IN  IF md.raised # "none"
             THEN [raised |-> md.raised, value |-> << >>, fs |-> md.fs,
                   files |-> files, opened |-> FALSE, out |-> << >>]
             ELSE IF Failing(doc) # {}
             THEN [raised |-> "ValueError", value |-> << >>, fs |-> md.fs,
                   files |-> written, opened |-> TRUE, out |-> << >>]
             ELSE [raised |-> "none", value |-> catalog, fs |-> md.fs,
                   files |-> written, opened |-> TRUE,
                   out |-> IF catalog # << >>
                           THEN << Msg("images_extracted", << Len(catalog) >>) >>
                           ELSE << Msg("no_images", << >>) >>]

(***************************************************************************)
(* The catalog section of the prompt (lines 166-177).                      *)
(***************************************************************************)
ItemOf(catalog, key) == catalog[CHOOSE k \in 1..Len(catalog) : catalog[k].key = key]

ContextLines(catalog) ==
    LET ids == Sorted(Keys(catalog)) IN
    [k \in 1..Len(ids) |-> [id |-> ids[k], page |-> ItemOf(catalog, ids[k]).page]]

ContextSection(lines) ==
    IF lines # << >>
    THEN [placeholder |-> FALSE, lines |-> lines]
    ELSE [placeholder |-> TRUE, lines |-> << >>]

(***************************************************************************)
(* json.loads on the response text (line 251).  A text is a sequence of    *)
(* tokens: brackets, commas, the literals "{}", "1" and "null", white      *)
(* space, and anything else.  The parsed value carries its Python type.    *)
(***************************************************************************)
Atoms == {"{}", "1", "null"}
TypeOf(tok) == CASE tok = "{}" -> "dict" [] tok = "1" -> "int" [] tok = "null" -> "NoneType"

JsonError == [ok |-> FALSE, type |-> "none", items |-> << >>]
JsonValue(type, items) == [ok |-> TRUE, type |-> type, items |-> items]

\* The text between "[" and "]": empty, or elements separated by single commas.
Elements(inner) ==
    IF inner = << >> THEN JsonValue("list", << >>)
    ELSE IF Len(inner) % 2 = 1
            /\ \A k \in 1..Len(inner) :
                 IF k % 2 = 1 THEN inner[k] \in Atoms ELSE inner[k] = ","
    THEN JsonValue("list", [k \in 1..((Len(inner) + 1) \div 2) |-> TypeOf(inner[2 * k - 1])])
    ELSE JsonError

JsonLoads(text) ==
    LET t == SelectSeq(text, NotSpace) IN
    IF Len(t) = 1 /\ t[1] \in Atoms THEN JsonValue(TypeOf(t[1]), << >>)
    ELSE IF Len(t) >= 2 /\ t[1] = "[" /\ t[Len(t)] = "]"
    THEN Elements(SubSeq(t, 2, Len(t) - 1))
    ELSE JsonError

\* isinstance(slides, list) (line 253)
IsList(v) == v.type = "list"

NotSlidesNever(v) == FALSE

\* `not slides` (line 264) on a list
NotSlides(v) == v.items = << >>

\* len(slides) (line 289)
SlideCount(v) == Len(v.items)

\* template.render(slides=slides, image_catalog=image_catalog) (line 275)
Render(template, v, catalog) ==
    [template |-> template, slides |-> v.items, images |-> Keys(catalog)]

(***************************************************************************)
(* Inputs.                                                                 *)
(***************************************************************************)
\* Contents of prompt.txt: empty, blank, a title and a body, a leading blank line.
PromptTexts ==
    { << >>, << " ", "\n" >>, << "T", "\n", "b" >>, << "\n", "T" >> }

ValidTemplate == << "valid" >>
BrokenTemplate == << "syntax error" >>

OldHtml == [template |-> << "old" >>, slides |-> << >>, images |-> {}]

\* "[" e "," e ... "]" with n elements e
ArrayOf(e, n) ==
    << "[" >> \o [k \in 1..(2 * n - 1) |-> IF k % 2 = 1 THEN e ELSE ","] \o << "]" >>

Padded(t) == << "\n" >> \o t \o << " " >>

NotJson == << "n", "o", "t", " ", "j", "s", "o", "n" >>

InvalidTexts ==
    { << >>, NotJson, << "[", "{}", ",", "]" >>, << "[", "{}" >>, << "{}", "{}" >>,
      Padded(<< "[", "," , "]" >>) }
NonArrayTexts == { << "{}" >>, << "1" >>, << "null" >>, Padded(<< "{}" >>) }
EmptyArrayTexts == { << "[", "]" >>, Padded(<< "[", "]" >>) }
SlideArrays(n) == { ArrayOf("{}", n), Padded(ArrayOf("{}", n)), ArrayOf("1", n) }

ResponseTexts ==
    InvalidTexts \cup NonArrayTexts \cup EmptyArrayTexts
        \cup UNION {SlideArrays(n) : n \in 1..MaxSlides}

\* What client.models.generate_content does: raises, or returns a response
\* whose .text is a string or None.
ApiOutcomes ==
    { [raises |-> TRUE, hasText |-> FALSE, text |-> << >>],
      [raises |-> FALSE, hasText |-> FALSE, text |-> << >>] }
        \cup { [raises |-> FALSE, hasText |-> TRUE, text |-> t] : t \in ResponseTexts }

NoResponse == [raises |-> FALSE, hasText |-> FALSE, text |-> << >>]

\* Documents.
DocOf(shape, special, pix) ==
    [p \in 1..Len(shape) |->
        [i \in 1..shape[p] |-> IF << p, i >> = special THEN pix ELSE RGB]]

Shapes == UNION {[1..n -> 0..MaxImages] : n \in 1..MaxPages}

\* Documents of up to MaxPages pages and MaxImages images a page, all RGB
\* but for at most one image of any pixel format.
SmallDocs ==
    UNION { { DocOf(shape, special, pix) :
                special \in {<< 0, 0 >>} \cup Positions(DocOf(shape, << 0, 0 >>, RGB)),
                pix \in PixFormats }
            : shape \in Shapes }

\* A document of n pages with one image on each of its last two pages.
SparseDoc(n) == [p \in 1..n |-> IF p >= n - 1 THEN << RGB >> ELSE << >>]
\* A document of one page with n images.
DenseDoc(n) == << [i \in 1..n |-> RGB] >>

\* Documents at the widths of the id format: 9 and 10, 99 and 100, ... pages or images.
BoundaryDocs ==
    UNION { {SparseDoc(10 ^ w - 1), SparseDoc(10 ^ w)} : w \in 1..PageDigits }
        \cup UNION { {DenseDoc(10 ^ w - 1), DenseDoc(10 ^ w)} : w \in 1..ImageDigits }

ExampleDoc == << << RGB, RGB >>, << >>, << Pixmap("cmyk", 1) >> >>
NoImagesDoc == << << >> >>
PipelineDocs == { ExampleDoc, NoImagesDoc, << << Pixmap("cmyk", 0) >> >> }

\* The document each candidate location holds when it is a regular file.
DocAt(p) ==
    CASE p = PDF_PATH -> << << RGB >> >>
      [] p = ExternalPdf -> << << RGB, RGB >> >>
      [] p = WindowsPdf -> << << >>, << >> >>
      [] p = RepoPdf -> << << RGB >>, << >> >>
      [] p = RepoResourcePdf -> << << >>, << RGB >> >>

CandidatePaths == { PDF_PATH, ExternalPdf, WindowsPdf, RepoPdf, RepoResourcePdf }

\* Values of SOURCE_PDF_PATH: unset, empty, an external file, other spellings
\* of the cache path and of a repository file.
Overrides ==
    { Unset, EnvPath(<< >>), EnvPath(ExternalPdf),
      EnvPath(<< ".", "resources", "water_heater_guide.pdf" >>),
      EnvPath(<< ".", "WaterHeaterGuide_e.pdf" >>) }

FsPaths == { Resolve(p) : p \in CandidatePaths \cup { RESOURCE_DIR, IMAGE_DIR } }

\* A child exists only in a directory.
Consistent(f) ==
    /\ (Exists(f, PDF_PATH) \/ Exists(f, RepoResourcePdf) \/ Exists(f, IMAGE_DIR))
          => Node(f, RESOURCE_DIR).type = "dir"

MakeFs(cache, external, windows, repo, repoResource, resourceDir, imageDir) ==
    [q \in FsPaths |->
        CASE q = Resolve(PDF_PATH) -> cache
          [] q = Resolve(ExternalPdf) -> external
          [] q = Resolve(WindowsPdf) -> windows
          [] q = Resolve(RepoPdf) -> repo
          [] q = Resolve(RepoResourcePdf) -> repoResource
          [] q = Resolve(RESOURCE_DIR) -> resourceDir
          [] q = Resolve(IMAGE_DIR) -> imageDir]

\* A candidate location: absent, a directory, or the regular file DocAt gives it.
AnyNode(p) == { Absent, Dir, File(DocAt(p)) }

(***************************************************************************)
(* The script (lines 147-290), one action per module-level stage.          *)
(***************************************************************************)
NoValue == << >>
EmptyList == JsonValue("list", << >>)
NoPrompt == [assets |-> ContextSection(<< >>), instructions |-> << >>]
NoHtml == [template |-> << >>, slides |-> << >>, images |-> {}]

\* The state of a process that has just started, on a given environment.
Started ==
    /\ pc = "read_prompt"
    /\ exitStatus = -1
    /\ stdout = << >>
    /\ stages = << >>
    /\ outputWrites = 0
    /\ prompt = NoValue
    /\ pdf_path = NoValue
    /\ image_catalog = << >>
    /\ image_context_lines = << >>
    /\ full_prompt = NoPrompt
    /\ apiCalls = 0
    /\ response = NoResponse
    /\ raw_output = NoValue
    /\ slides = EmptyList
    /\ rendered_html = NoHtml
    /\ raised = "none"
    /\ pdfOpened = FALSE
    /\ fsAtStart = fs
    /\ imageFilesAtStart = imageFiles
    /\ outputAtStart = outputFile

inputs == << promptFile, templateFile, env, fitz >>
history == << fsAtStart, imageFilesAtStart, outputAtStart >>
locals == << prompt, pdf_path, image_catalog, image_context_lines, full_prompt,
             response, raw_output, slides, rendered_html >>

\* exit() with no argument: SystemExit(None), exit status 0.
Exit(out) ==
    /\ pc' = "exited"
    /\ exitStatus' = 0
    /\ stdout' = stdout \o out
    /\ raised' = "none"
    /\ UNCHANGED stages

\* An exception no handler catches: traceback, exit status 1.
Crash(exc, out) ==
    /\ pc' = "crashed"
    /\ exitStatus' = 1
    /\ stdout' = stdout \o out
    /\ raised' = exc
    /\ UNCHANGED stages

Continue(stage, next, out) ==
    /\ pc' = next
    /\ stdout' = stdout \o out
    /\ stages' = Append(stages, stage)
    /\ UNCHANGED << exitStatus, raised >>

\* Lines 147-152.
ReadPrompt ==
    /\ pc = "read_prompt"
    /\ IF promptFile.type = "absent"
       THEN Exit(<< Msg("prompt_missing", << >>) >>) /\ UNCHANGED prompt
       ELSE Continue("read_prompt", "check_prompt", << >>) /\ prompt' = promptFile.data
    /\ UNCHANGED << fs, inputs, history, outputFile, outputWrites, imageFiles,
                    pdf_path, image_catalog, image_context_lines, full_prompt,
                    apiCalls, response, raw_output, slides, rendered_html, pdfOpened >>

\* Lines 154-156.
CheckPrompt ==
    /\ pc = "check_prompt"
    /\ IF Strip(prompt) = << >>
       THEN Exit(<< Msg("prompt_empty", << >>) >>)
       ELSE Continue("check_prompt", "locate", << >>)
    /\ UNCHANGED << fs, inputs, history, outputFile, outputWrites, imageFiles,
                    locals, apiCalls, pdfOpened >>

\* Lines 158-162.
LocatePdf ==
    /\ pc = "locate"
    /\ LET r == ensure_pdf_available(fs, env) IN
       /\ fs' = r.fs
       /\ IF r.raised = "none"
          THEN Continue("locate", "extract", r.out) /\ pdf_path' = r.value
          ELSE IF r.raised = "FileNotFoundError"
          THEN Exit(r.out \o << Msg("pdf_not_found", << >>) >>) /\ UNCHANGED pdf_path
          ELSE Crash(r.raised, r.out) /\ UNCHANGED pdf_path
    /\ UNCHANGED << inputs, history, outputFile, outputWrites, imageFiles, prompt,
                    image_catalog, image_context_lines, full_prompt, apiCalls,
                    response, raw_output, slides, rendered_html, pdfOpened >>

\* Line 164.
ExtractImages ==
    /\ pc = "extract"
    /\ LET r == extract_images_from_pdf(fs, imageFiles, pdf_path, fitz) IN
       /\ fs' = r.fs
       /\ imageFiles' = r.files
       /\ pdfOpened' = r.opened
       /\ IF r.raised = "none"
          THEN Continue("extract", "compose", r.out) /\ image_catalog' = r.value
          ELSE Crash(r.raised, r.out) /\ UNCHANGED image_catalog
    /\ UNCHANGED << inputs, history, outputFile, outputWrites, prompt, pdf_path,
                    image_context_lines, full_prompt, apiCalls, response,
                    raw_output, slides, rendered_html >>

\* prompt.splitlines()[0] (line 180); the prompt is not blank here.
FirstLine(t) ==
    IF \E k \in 1..Len(t) : t[k] = "\n"
    THEN SubSeq(t, 1, (CHOOSE k \in 1..Len(t) :
                          t[k] = "\n" /\ \A j \in 1..(k - 1) : t[j] # "\n") - 1)
    ELSE t

\* Lines 166-202.
ComposePrompt ==
    /\ pc = "compose"
    /\ image_context_lines' = ContextLines(image_catalog)
    /\ full_prompt' = [assets |-> ContextSection(ContextLines(image_catalog)),
                       instructions |-> prompt]
    /\ Continue("compose", "generate",
                << Msg("start", << >>), Msg("theme", FirstLine(prompt)) >>)
    /\ UNCHANGED << fs, inputs, history, outputFile, outputWrites, imageFiles,
                    prompt, pdf_path, image_catalog, apiCalls, response,
                    raw_output, slides, rendered_html, pdfOpened >>

\* Lines 204-242.
Generate ==
    /\ pc = "generate"
    /\ apiCalls' = apiCalls + 1
    /\ \E outcome \in ApiOutcomes :
         IF outcome.raises
         THEN Exit(<< Msg("api_failed", << >>), Msg("hints", << >>) >>)
                /\ UNCHANGED response
         ELSE Continue("generate", "parse", << >>) /\ response' = outcome
    /\ UNCHANGED << fs, inputs, history, outputFile, outputWrites, imageFiles,
                    prompt, pdf_path, image_catalog, image_context_lines,
                    full_prompt, raw_output, slides, rendered_html, pdfOpened >>

\* Lines 246-266.
ParseResponse ==
    /\ pc = "parse"
    /\ IF ~response.hasText
       THEN Crash("AttributeError", << >>) /\ UNCHANGED << raw_output, slides >>
       ELSE LET raw == Strip(response.text)
                parsed == JsonLoads(raw)
            IN  /\ raw_output' = raw
                /\ IF ~parsed.ok
                   THEN /\ Exit(<< Msg("json_error", << >>), Msg("raw", raw),
                                   Msg("rule", << >>) >>)
                        /\ UNCHANGED slides
                   ELSE /\ slides' = parsed
                        /\ IF ~IsList(parsed)
                           THEN Exit(<< Msg("not_an_array", << >>) >>)
                           ELSE IF NotSlides(parsed)
                           THEN Exit(<< Msg("no_slides", << >>) >>)
                           ELSE Continue("parse", "render", << >>)
    /\ UNCHANGED << fs, inputs, history, outputFile, outputWrites, imageFiles,
                    prompt, pdf_path, image_catalog, image_context_lines,
                    full_prompt, apiCalls, response, rendered_html, pdfOpened >>

\* Lines 269-281.
RenderTemplate ==
    /\ pc = "render"
    /\ IF templateFile.type = "absent"
       THEN Exit(<< Msg("template_missing", << >>) >>) /\ UNCHANGED rendered_html
       ELSE IF templateFile.data # ValidTemplate
       THEN Exit(<< Msg("template_error", << >>) >>) /\ UNCHANGED rendered_html
       ELSE /\ Continue("render", "write", << >>)
            /\ rendered_html' = Render(templateFile.data, slides, image_catalog)
    /\ UNCHANGED << fs, inputs, history, outputFile, outputWrites, imageFiles,
                    prompt, pdf_path, image_catalog, image_context_lines,
                    full_prompt, apiCalls, response, raw_output, slides, pdfOpened >>

WriteOutputTwice ==
    /\ pc = "write"
    /\ outputFile' = File(rendered_html)
    /\ outputWrites' = outputWrites + 2
    /\ pc' = "done"
    /\ exitStatus' = 0
    /\ stdout' = stdout \o << Msg("summary", << SlideCount(slides) >>) >>
    /\ stages' = Append(stages, "write")
    /\ UNCHANGED << fs, inputs, history, imageFiles, locals, apiCalls, raised,
                    pdfOpened >>

\* Lines 285-290, and the end of the script.
WriteOutput ==
    /\ pc = "write"
    /\ outputFile' = File(rendered_html)
    /\ outputWrites' = outputWrites + 1
    /\ pc' = "done"
    /\ exitStatus' = 0
    /\ stdout' = stdout \o << Msg("summary", << SlideCount(slides) >>) >>
    /\ stages' = Append(stages, "write")
    /\ UNCHANGED << fs, inputs, history, imageFiles, locals, apiCalls, raised,
                    pdfOpened >>

\* The process has ended (by itself or interrupted) and the script is started
\* again, possibly under another SOURCE_PDF_PATH; files stay as they are.
NewRun ==
    /\ pc # "read_prompt"
    /\ env' \in Overrides
    /\ pc' = "read_prompt"
    /\ exitStatus' = -1
    /\ stdout' = << >>
    /\ stages' = << >>
    /\ outputWrites' = 0
    /\ prompt' = NoValue
    /\ pdf_path' = NoValue
    /\ image_catalog' = << >>
    /\ image_context_lines' = << >>
    /\ full_prompt' = NoPrompt
    /\ apiCalls' = 0
    /\ response' = NoResponse
    /\ raw_output' = NoValue
    /\ slides' = EmptyList
    /\ rendered_html' = NoHtml
    /\ raised' = "none"
    /\ pdfOpened' = FALSE
    /\ fsAtStart' = fs
    /\ imageFilesAtStart' = imageFiles
    /\ outputAtStart' = outputFile
    /\ UNCHANGED << fs, imageFiles, promptFile, templateFile, outputFile, fitz >>

(***************************************************************************)
(* Specifications.                                                         *)
(***************************************************************************)
\* One run of the whole script over prompts, templates, responses and a few
\* filesystems.
Init ==
    /\ promptFile \in {Absent} \cup {File(t) : t \in PromptTexts}
    /\ templateFile \in {Absent, File(ValidTemplate), File(BrokenTemplate)}
    /\ outputFile \in {Absent, File(OldHtml)}
    /\ fitz \in BOOLEAN
    /\ env = Unset
    /\ imageFiles = {}
    /\ \E cache \in {Absent} \cup {File(d) : d \in PipelineDocs},
          repo \in {Absent, Dir, File(ExampleDoc)},
          resourceDir \in {Absent, Dir}, imageDir \in {Absent, Dir} :
         /\ fs = MakeFs(cache, Absent, Absent, repo, Absent, resourceDir, imageDir)
         /\ Consistent(fs)
    /\ Started

Next ==
    \/ ReadPrompt
    \/ CheckPrompt
    \/ LocatePdf
    \/ ExtractImages
    \/ ComposePrompt
    \/ Generate
    \/ ParseResponse
    \/ RenderTemplate
    \/ WriteOutput

Spec == Init /\ [][Next]_vars

\* Runs of the script up to the PDF location, over every combination of
\* candidate nodes and override values.
InitLocate ==
    /\ promptFile = File(<< "T", "\n", "b" >>)
    /\ templateFile = File(ValidTemplate)
    /\ outputFile = Absent
    /\ fitz = TRUE
    /\ env \in Overrides
    /\ imageFiles = {}
    /\ \E cache \in AnyNode(PDF_PATH), external \in AnyNode(ExternalPdf),
          windows \in AnyNode(WindowsPdf), repo \in AnyNode(RepoPdf),
          repoResource \in AnyNode(RepoResourcePdf), resourceDir \in {Absent, Dir} :
         /\ fs = MakeFs(cache, external, windows, repo, repoResource, resourceDir, Absent)
         /\ Consistent(fs)
    /\ Started

NextLocate ==
    \/ ReadPrompt
    \/ CheckPrompt
    \/ LocatePdf
    \/ NewRun

SpecLocate == InitLocate /\ [][NextLocate]_vars

\* Runs of the script up to the composed prompt, over the documents.
InitExtract ==
    /\ promptFile = File(<< "T", "\n", "b" >>)
    /\ templateFile = File(ValidTemplate)
    /\ outputFile = Absent
    /\ fitz = TRUE
    /\ env = Unset
    /\ imageFiles = {}
    /\ \E doc \in SmallDocs \cup BoundaryDocs :
         fs = MakeFs(File(doc), Absent, Absent, Absent, Absent, Dir, Absent)
    /\ Started

NextExtract ==
    \/ ReadPrompt
    \/ CheckPrompt
    \/ LocatePdf
    \/ ExtractImages
    \/ ComposePrompt

SpecExtract == InitExtract /\ [][NextExtract]_vars

(***************************************************************************)
(* Vocabulary of the properties.                                           *)
(***************************************************************************)
Reached(stage) == \E k \in 1..Len(stages) : stages[k] = stage

AllStages ==
    << "read_prompt", "check_prompt", "locate", "extract", "compose", "generate",
       "parse", "render", "write" >>

\* ensure_pdf_available was called in this run and has returned or raised.
LocateRan == Reached("check_prompt") /\ pc # "locate"
\* extract_images_from_pdf was called in this run and has returned or raised.
ExtractRan == Reached("locate") /\ pc # "extract"
\* The response was parsed in this run.
ParseRan == Reached("generate") /\ pc # "parse"

\* The candidate paths of this run, and those that existed when it started.
StartCandidates ==
    { PDF_PATH, WindowsPdf, RepoPdf, RepoResourcePdf }
        \cup (IF env.set /\ env.value # << >> THEN { env.value } ELSE {})
ExistingAtStart == { Resolve(p) : p \in {q \in StartCandidates : Exists(fsAtStart, q)} }
RegularAtStart == { Resolve(p) : p \in {q \in StartCandidates : IsFile(fsAtStart, q)} }

SameNode(a, b) == a.type = b.type /\ (a.type = "file" => a.data = b.data)
PrintedWith(tag, arg) ==
    \E k \in 1..Len(stdout) : stdout[k].msg = tag /\ stdout[k].arg = arg

(***************************************************************************)
(* C1: when the returned text is not valid JSON, or parses to a value that *)
(* is not an array, or to an empty array, the run ends by exit() before    *)
(* rendering and writing: output.html is as it was when the run started,   *)
(* and for text that is not valid JSON the raw (stripped) text was         *)
(* printed.                                                                *)
(***************************************************************************)
C1_BadResponseWritesNothing ==
    (ParseRan /\ response.hasText
        /\ response.text \in InvalidTexts \cup NonArrayTexts \cup EmptyArrayTexts)
    => /\ pc = "exited"
       /\ ~Reached("parse")
       /\ rendered_html = NoHtml
       /\ outputWrites = 0
       /\ SameNode(outputFile, outputAtStart)
       /\ response.text \in InvalidTexts => PrintedWith("raw", Strip(response.text))

C1_Witness ==
    /\ ParseRan
    /\ response.hasText /\ response.text = NotJson
    /\ pc = "exited"
    /\ outputFile = File(OldHtml)
    /\ PrintedWith("raw", NotJson)

(***************************************************************************)
(* C2: when the returned text is a well-formed array of n >= 1 elements    *)
(* and the template exists and renders, the run goes on to write           *)
(* output.html: it is written exactly once, after every earlier stage      *)
(* completed in order, and the summary reports n slides.                   *)
(***************************************************************************)
C2_WrittenOnceWithCount ==
    \A n \in 1..MaxSlides :
        (ParseRan /\ response.hasText /\ response.text \in SlideArrays(n)
            /\ templateFile.type = "file" /\ templateFile.data = ValidTemplate)
        => /\ pc \in {"render", "write", "done"}
           /\ pc = "done" =>
                /\ outputWrites = 1
                /\ stages = AllStages
                /\ outputFile = File(rendered_html)
                /\ stdout[Len(stdout)].msg = "summary"
                /\ stdout[Len(stdout)].arg = << n >>
           /\ pc # "done" =>
                /\ outputWrites = 0
                /\ SameNode(outputFile, outputAtStart)

C2_Witness ==
    /\ pc = "done"
    /\ response.text = Padded(ArrayOf("{}", 2))
    /\ outputWrites = 1
    /\ outputAtStart = File(OldHtml)
    /\ PrintedWith("summary", << 2 >>)

(***************************************************************************)
(* C3: when exactly one candidate path exists as the run starts and it is  *)
(* a regular file, ensure_pdf_available returns the cache path and the     *)
(* cache path then holds that file's bytes, whichever slot held it.        *)
(***************************************************************************)
C3_OnlyCandidateIsCached ==
    (LocateRan /\ Cardinality(ExistingAtStart) = 1 /\ RegularAtStart = ExistingAtStart)
    => LET c == CHOOSE q \in ExistingAtStart : TRUE IN
       /\ Reached("locate")
       /\ pdf_path = PDF_PATH
       /\ Node(fs, PDF_PATH) = File(fsAtStart[c].data)

C3_Witness ==
    /\ LocateRan
    /\ ExistingAtStart = { Resolve(ExternalPdf) }
    /\ RegularAtStart = ExistingAtStart
    /\ pdf_path = PDF_PATH
    /\ Node(fs, PDF_PATH) = File(DocAt(ExternalPdf))

(***************************************************************************)
(* C4: when some candidate exists but is not a regular file, in any slot   *)
(* including the cache path, the locator fails only if no candidate is a   *)
(* regular file; otherwise it returns the cache path, which then holds     *)
(* the bytes of the first regular file in priority order.                  *)
(***************************************************************************)
FirstRegularAtStart ==
    LET cands == iter_pdf_candidates(env)
        k == CHOOSE i \in 1..Len(cands) :
                /\ IsFile(fsAtStart, cands[i])
                /\ \A j \in 1..(i - 1) : ~IsFile(fsAtStart, cands[j])
    IN  cands[k]

C4_NonRegularCandidatesAreSkipped ==
    (LocateRan /\ ExistingAtStart # RegularAtStart)
    => IF RegularAtStart = {}
       THEN pc = "exited" /\ PrintedWith("pdf_not_found", << >>)
       ELSE /\ Reached("locate")
            /\ pdf_path = PDF_PATH
            /\ Node(fs, PDF_PATH) = File(Node(fsAtStart, FirstRegularAtStart).data)

(***************************************************************************)
(* C5: when no candidate path exists, ensure_pdf_available raises          *)
(* FileNotFoundError without creating or copying a file, and the run ends  *)
(* by exit() before extraction, before the generation call and before      *)
(* any write of output.html.                                               *)
(***************************************************************************)
C5_NoCandidateEndsRun ==
    (LocateRan /\ ExistingAtStart = {})
    => /\ pc = "exited"
       /\ PrintedWith("pdf_not_found", << >>)
       /\ \A p \in CandidatePaths : ~Exists(fs, p)
       /\ SameNode(Node(fs, IMAGE_DIR), Node(fsAtStart, IMAGE_DIR))
       /\ imageFiles = imageFilesAtStart
       /\ ~Reached("locate")
       /\ ~pdfOpened
       /\ apiCalls = 0
       /\ outputWrites = 0
       /\ SameNode(outputFile, outputAtStart)

C5_Witness ==
    /\ LocateRan
    /\ ExistingAtStart = {}
    /\ ~Exists(fsAtStart, RESOURCE_DIR)
    /\ pc = "exited"
    /\ PrintedWith("pdf_not_found", << >>)

(***************************************************************************)
(* C6: after extract_images_from_pdf the catalog has exactly one entry     *)
(* per embedded image, keyed by page and per-page index, and every entry   *)
(* references a written PNG file holding plain RGB data (3 colour          *)
(* channels, no alpha), whatever the pixel format of the image.            *)
(***************************************************************************)
C6_EveryImageSavedAsRgb ==
    ExtractRan
    => LET doc == Node(fsAtStart, PDF_PATH).data IN
       /\ Reached("extract")
       /\ Len(image_catalog) = Cardinality(Positions(doc))
       /\ Keys(image_catalog) = {BaseName(x[1], x[2]) : x \in Positions(doc)}
       /\ \A k \in 1..Len(image_catalog) :
            \E f \in imageFiles :
                /\ f.name = image_catalog[k].src.name
                /\ f.pix = RGB

(***************************************************************************)
(* C7: the catalog ids in lexicographic order are the ids in extraction    *)
(* order, so the catalog lines of the prompt are in extraction order.      *)
(* As claimed, for every document; as amended, for documents of at most    *)
(* 10^3 - 1 pages and at most 10^2 - 1 images on a page.                   *)
(***************************************************************************)
LinesInExtractionOrder ==
    /\ Len(image_context_lines) = Len(image_catalog)
    /\ \A k \in 1..Len(image_catalog) :
         image_context_lines[k].id = image_catalog[k].key

WithinWidths(doc) ==
    /\ Len(doc) < 10 ^ PageDigits
    /\ \A p \in 1..Len(doc) : Len(doc[p]) < 10 ^ ImageDigits

C7_SortedIsExtractionOrder_AnySize ==
    Reached("compose") => LinesInExtractionOrder

C7_SortedIsExtractionOrder ==
    (Reached("compose") /\ WithinWidths(Node(fsAtStart, PDF_PATH).data))
    => LinesInExtractionOrder

C7_Witness ==
    /\ Reached("compose")
    /\ Node(fsAtStart, PDF_PATH).data = SparseDoc(10 ^ PageDigits - 1)
    /\ Len(image_context_lines) = 2
    /\ image_context_lines[2].page = 10 ^ PageDigits - 1

(***************************************************************************)
(* C8: without PyMuPDF, extract_images_from_pdf returns an empty catalog   *)
(* without raising, opening the PDF, creating the images directory or      *)
(* writing an image; the run goes on to the generation call, and the       *)
(* prompt carries the placeholder in place of the catalog lines.           *)
(***************************************************************************)
C8_NoFitzDegrades ==
    (~fitz /\ ExtractRan)
    => /\ Reached("extract")
       /\ image_catalog = << >>
       /\ ~pdfOpened
       /\ SameNode(Node(fs, IMAGE_DIR), Node(fsAtStart, IMAGE_DIR))
       /\ imageFiles = imageFilesAtStart
       /\ PrintedWith("pymupdf_missing", << >>)
       /\ pc # "compose" =>
            /\ Reached("compose")
            /\ full_prompt.assets = [placeholder |-> TRUE, lines |-> << >>]
            /\ pc # "generate" => apiCalls = 1

C8_Witness ==
    /\ ~fitz
    /\ pc = "parse"
    /\ apiCalls = 1
    /\ Node(fs, PDF_PATH).data = ExampleDoc
    /\ ~Exists(fs, IMAGE_DIR)
    /\ full_prompt.assets.placeholder

(***************************************************************************)
(* C9: every fatal condition prints a diagnostic and ends the process      *)
(* with a non-zero exit status, and a successful run prints the summary    *)
(* and ends with status zero.                                              *)
(***************************************************************************)
C9_FatalExitIsNonZero ==
    /\ pc = "exited" => (stdout # << >> /\ exitStatus # 0)
    /\ pc = "done" => (PrintedWith("summary", << SlideCount(slides) >>) /\ exitStatus = 0)

(***************************************************************************)
(* C10: while the cache path is a regular file, no step of any run changes *)
(* a file, and the step that calls ensure_pdf_available (a step from the   *)
(* locate stage that is not a restart) returns the cache path without      *)
(* copying, whatever the override and the other candidates are.            *)
(***************************************************************************)
C10_CacheWins ==
    [][IsFile(fs, PDF_PATH)
        => /\ fs' = fs
           /\ (pc = "locate" /\ pc' # "read_prompt") =>
                /\ pc' = "extract"
                /\ pdf_path' = PDF_PATH
                /\ stdout' = Append(stdout, Msg("pdf_cached", PDF_PATH))]_vars

C10_Witness ==
    /\ pc = "extract"
    /\ IsFile(fsAtStart, PDF_PATH)
    /\ Node(fs, PDF_PATH) = File(DocAt(RepoPdf))
    /\ env = EnvPath(ExternalPdf)
    /\ IsFile(fs, ExternalPdf)
    /\ PrintedWith("pdf_cached", PDF_PATH)

====
